---------------------------- MODULE Spec2Model ----------------------------
(***************************************************************************)
(* Plugin REPL (src/repl.js, the revision with autosave and --recurse,     *)
(* lines 220-519): the session (pipeline, inputFile, lastOutput), its      *)
(* snapshots on disk, and the run_pipeline handler with its await points.  *)
(* Catalog scan (src/unnamed/part_000): the plugins and parameters tables  *)
(* of plugins.db and the seed loop that fills them, with its discovery    *)
(* of bundles and its parser of the tool's report; savePlugin as           *)
(* src/seed.js has it; and the usable-parameters queries of show and of    *)
(* getParameters (src/unnamed/part_001).                                   *)
(*                                                                         *)
(* The 'line' listener is an async function: readline emits the next line  *)
(* while an earlier handler is suspended in `await execa(...)`.  A handler *)
(* therefore runs atomically from one await to the next, and the handlers  *)
(* of later lines may run in between.                                      *)
(***************************************************************************)
EXTENDS Integers, Sequences, FiniteSets, TLC

VARIABLES
    pipeline,     \* let pipeline = []            (repl.js:231)
    inputFile,    \* let inputFile = null         (repl.js:232)
    lastOutput,   \* let lastOutput = null        (repl.js:233)
    files,        \* the snapshot files on disk: name -> content
    runs,         \* the run_pipeline handlers suspended in `await execa`,
                  \* in start order, each with the invocations it has made
                  \* (the model follows one at a time: see `run`)
    lines,        \* number of command lines handled so far
    alive,        \* the REPL process has not exited
    last,         \* what the most recent handler step did (for the claims)
    plugins,      \* table plugins of plugins.db     (part_000:15-20)
    parameters,   \* table parameters of plugins.db  (part_000:21-30)
    mtime,        \* modification time of each plugin bundle, in seconds
    clock,        \* Math.floor(Date.now() / 1000)
    seeding       \* the seed process: its place in the loop of lines
                  \* 133-148 and the external listings it has made

replVars == <<pipeline, inputFile, lastOutput, files, runs, lines, alive>>

seedVars == <<plugins, parameters, mtime, clock, seeding>>

vars == <<pipeline, inputFile, lastOutput, files, runs, lines, alive, last,
          plugins, parameters, mtime, clock, seeding>>

----------------------------------------------------------------------------
(* Bounds of the model *)

MaxStages == 2      \* longest pipeline
MaxRecurse == 2     \* largest --recurse=N
MaxLines == 2       \* command lines handled in one behaviour
MaxClock == 3       \* latest time, in seconds, the scan model looks at
MaxReportLines == 3 \* lines in a report of Plugalyzer
MaxParams == 2      \* parameter rows of a plugin the show model looks at

----------------------------------------------------------------------------
(* Values.  A JavaScript value that is null or a string is a record with   *)
(* field k; a file path is a string kept in three parts, dir \o stem \o    *)
(* ext, where stem never ends in ".wav".                                   *)

Null == [k |-> "null"]

Str(dir, stem, ext) == [k |-> "str", dir |-> dir, stem |-> stem, ext |-> ext]

\* the empty string "" (an argument produced by two adjacent blanks)
Empty == Str("", "", "")

\* JavaScript truthiness of a null-or-string value: `!x`, `x || y`
Truthy(v) == v # Null /\ v # Empty

Or(v, w) == IF Truthy(v) THEN v ELSE w

\* process.cwd(), with the trailing separator path.resolve inserts
Cwd == "/cwd/"

\* path.resolve(p) for a non-empty p: an absolute path is kept, a relative
\* one is put under the working directory
resolve(p) == IF p.dir = "" THEN [p EXCEPT !.dir = Cwd] ELSE p

\* s.replace(/(\.wav)$/i, ""): the text of s without a trailing .wav
StripWav(p) ==
    IF p.ext \in {".wav", ".WAV"} THEN p.dir \o p.stem
    ELSE p.dir \o p.stem \o p.ext

\* `${currentInput.replace(/(\.wav)$/i, "")}_r${r + 1}_step${i + 1}.wav`
\* (r and i are the 0-based loop counters)
stepOutput(currentInput, r, i) ==
    Str("", StripWav(currentInput) \o "_r" \o ToString(r + 1)
               \o "_step" \o ToString(i + 1), ".wav")

\* path.resolve(`out_${Date.now()}.wav`)
DefaultOutput(now) == resolve(Str("", "out_" \o ToString(now), ".wav"))

\* `parseInt(parts[1], 10) || 1` on a numeric text: 0 is falsy
ParseRecurse(n) == IF n = 0 THEN 1 ELSE n


----------------------------------------------------------------------------
(* The plugin table the REPL reads (SELECT * FROM plugins WHERE id = ?).   *)
(* The REPL never writes it: under Spec it stays the sample Catalog.       *)

PluginRow(id, path, name, scanned) ==
    [id |-> id, path |-> path, name |-> name, last_scanned |-> scanned]

Catalog ==
    { PluginRow(1, "/Library/Audio/Plug-Ins/VST3/Comp.vst3", "Comp.vst3", 100),
      PluginRow(2, "/Library/Audio/Plug-Ins/VST3/Verb.vst3", "Verb.vst3", 100) }

\* db.prepare("SELECT * FROM plugins WHERE id = ?").get(id): the rows found
\* (id is the primary key: at most one)
PluginsById(id) == { row \in plugins : row.id = id }

\* (mutant) the stage is the plugin row alone: the typed bindings are lost
Stage_DropsParams(plug, params) ==
    [id |-> plug.id, path |-> plug.path, name |-> plug.name,
     last_scanned |-> plug.last_scanned, params |-> <<>>]

\* { ...plug, params: pluginParams }
Stage(plug, params) ==
    [id |-> plug.id, path |-> plug.path, name |-> plug.name,
     last_scanned |-> plug.last_scanned, params |-> params]

----------------------------------------------------------------------------
(* Inputs the operator may type *)

\* plugin ids typed after `add` (3 is not in the table)
IdArgs == {1, 3}

\* binding lists typed after `add <id>` or `mod <index>`
BindingArgs == { <<>>, <<"gain:0.5", "mix:1">> }

\* 1-based indices typed after `mod` and `rm`
IndexArgs == 0 .. (MaxStages + 1)

\* file arguments of `in` and `run`; Null stands for an absent argument
InArgs == { Str("", "in", ".wav") }
OutArgs == { Str("", "out", ".wav") }

\* the N of --recurse=N (the run action also takes <<>>: no --recurse argument)
RecurseArgs == (-1) .. MaxRecurse

\* snapshot names typed after `save` and `load` (none typed: "state")
NameArgs == { "state" }

\* the snapshot files of the working directory
FileNames == NameArgs \cup { "autosave" }

\* values Date.now() returns
Times == { 1700000000 }

----------------------------------------------------------------------------
(* Snapshots: saveState, loadState, autosave (repl.js:235-269) *)

Absent == [kind |-> "absent"]

\* JSON.stringify(data, null, 2): the text of a file, kept as the value it
\* denotes
JSONstringify(data) == [kind |-> "json", value |-> data]

\* a path that cannot be written or read as a file (a directory of that
\* name): fs.writeFileSync and fs.readFileSync throw on it
Locked == [kind |-> "locked"]

\* const data = { pipeline, inputFile, lastOutput }; fs.writeFileSync(file, ..)
\* (the disk after the call, which has thrown if the path is locked)
saveState(name, fs, pl, inf, out) ==
    IF fs[name] = Locked THEN fs
    ELSE [fs EXCEPT ![name] =
            JSONstringify([pipeline |-> pl, inputFile |-> inf,
                           lastOutput |-> out])]

\* whether the process is alive after saveState(name) in a handler.  Nothing
\* catches what fs.writeFileSync throws: the promise of the async listener
\* of line 280 is rejected and the rejection is unhandled, on which Node
\* ends the process (the default since version 15) or prints a warning and
\* goes on (before, or with --unhandled-rejections=warn).
Unhandled(fs, name) == IF fs[name] = Locked THEN BOOLEAN ELSE {TRUE}

\* (mutant) the automatic snapshot written under the default name
autosave_DefaultName(fs, pl, inf, out) == saveState("state", fs, pl, inf, out)

\* const autosave = () => saveState("autosave")
autosave(fs, pl, inf, out) == saveState("autosave", fs, pl, inf, out)

\* a file whose text is not JSON (cut short, or edited by hand)
Garbage == [kind |-> "text"]

\* a file whose text is a JSON object that is no snapshot: it lacks the
\* pipeline and lastOutput fields
Foreign == JSONstringify([inputFile |-> Str("", "other", ".wav")])

\* fs.existsSync(file)
existsSync(fs, name) == fs[name] # Absent

\* JSON.parse(fs.readFileSync(file, "utf-8")) returns (it throws on text
\* that is not JSON)
Parses(content) == content.kind = "json"

\* const { pipeline: pl, inputFile: inf, lastOutput: out } = data, followed
\* by `pl || []`, `inf || null`, `out || null`: a field the object lacks is
\* undefined
Destructure(data) ==
    [pipeline   |-> IF "pipeline" \in DOMAIN data THEN data.pipeline ELSE <<>>,
     inputFile  |-> IF "inputFile" \in DOMAIN data
                    THEN Or(data.inputFile, Null) ELSE Null,
     lastOutput |-> IF "lastOutput" \in DOMAIN data
                    THEN Or(data.lastOutput, Null) ELSE Null]

\* loadState: the session after `loadState(name)` run on session `cur`
\* (a record pipeline, inputFile, lastOutput).  A missing file leaves it,
\* and so does a file JSON.parse throws on (the catch block).
loadState(name, fs, cur) ==
    IF ~existsSync(fs, name) THEN cur
    ELSE IF ~Parses(fs[name]) THEN cur
    ELSE Destructure(fs[name].value)

\* what loadState prints first
loadMessage(name, fs) ==
    IF ~existsSync(fs, name) THEN "No saved state found"
    ELSE IF ~Parses(fs[name]) THEN "Failed to load state"
    ELSE "Loaded state"

\* the session at lines 231-233
EmptySession == [pipeline |-> <<>>, inputFile |-> Null, lastOutput |-> Null]

\* lines 266-269: restore the autosaved session if there is one
Startup(fs) ==
    IF existsSync(fs, "autosave") THEN loadState("autosave", fs, EmptySession)
    ELSE EmptySession

Session == [pipeline |-> pipeline, inputFile |-> inputFile,
            lastOutput |-> lastOutput]

----------------------------------------------------------------------------
(* run_pipeline (repl.js:421-481).  A frame is one activation of the       *)
(* handler: its constants, its loop variables at the pending `await        *)
(* execa`, and the invocations it has made so far.                        *)

\* one `execa(PLUGALYZER, cmdArgs)` of stage i (0-based) in pass r (0-based)
Invocation(r, i, input, output, plug) ==
    [pass |-> r, stage |-> i, input |-> input, output |-> output,
     plugin |-> plug.path, params |-> plug.params, result |-> "pending"]

\* lines 449-465: the loop body of stage i of pass r up to the await
Issue(frame, pl, r, i, cur) ==
    LET outputFile == IF i = Len(pl) - 1 THEN frame.finalOutput
                      ELSE stepOutput(cur, r, i)
    IN [frame EXCEPT
          !.pc = "await", !.r = r, !.i = i,
          !.currentInput = cur, !.outputFile = outputFile,
          !.log = Append(@, Invocation(r, i, cur, outputFile, pl[i + 1]))]

\* (mutant) the handler never gets past its loop
Finish_Pending(frame) == [frame EXCEPT !.r = frame.recurse]

\* line 476 left with r >= recurse: the handler runs to its end
Finish(frame) == [frame EXCEPT !.pc = "done", !.r = frame.recurse]

\* lines 474-476 and 445-448 after pass r: lastOutput has just been set to
\* finalOutput, r is incremented, and the next pass starts from lastOutput.
\* A pass over an empty pipeline makes no invocation.
NextPass(frame, pl, r) ==
    IF r + 1 < frame.recurse /\ Len(pl) > 0
    THEN Issue(frame, pl, r + 1, 0, frame.finalOutput)
    ELSE Finish(frame)

\* the frame with the pending invocation's result recorded
Settle(frame, result) ==
    [frame EXCEPT !.log[Len(frame.log)].result = result]

\* (mutant) the catch block without its `break`
StageLoopContinues_IgnoresFailure(frame, pl, ok) == frame.i + 1 < Len(pl)

\* lines 466-472: after the await.  TRUE when the stage loop goes on to
\* stage i + 1; a failure breaks out of the stage loop only.
StageLoopContinues(frame, pl, ok) == ok /\ frame.i + 1 < Len(pl)

\* (mutant) line 471 left out: the next step reads the same input again
NextInput_Stale(frame) == frame.currentInput

\* line 471: currentInput = outputFile (the next step uses this output)
NextInput(frame) == frame.outputFile

\* `recurse`: 1 unless --recurse=N was given
Recurse(recArg) == IF recArg = <<>> THEN 1 ELSE ParseRecurse(recArg[1])

\* (mutant) `=== null` in place of `!`: an empty string passes for a file
NoInput_NullOnly(argIn) == inputFile = Null /\ argIn = Null

\* lines 439-443
NoInput(argIn) == ~Truthy(inputFile) /\ ~Truthy(argIn)

InitialInput(argIn) == resolve(Or(argIn, inputFile))

FinalOutput(argOut, now) ==
    IF Truthy(argOut) THEN resolve(argOut) ELSE DefaultOutput(now)

\* rs without its k-th element
Without(rs, k) == [j \in 1 .. (Len(rs) - 1) |-> IF j < k THEN rs[j] ELSE rs[j + 1]]

\* a new frame, with what the session was when the run started
NewFrame(argIn, argOut, recArg, now) ==
    [pc |-> "start", recurse |-> Recurse(recArg),
     initialInput |-> InitialInput(argIn),
     finalOutput |-> FinalOutput(argOut, now),
     r |-> 0, i |-> 0, currentInput |-> Null, outputFile |-> Null,
     log |-> <<>>,
     start |-> [n |-> Len(pipeline), inputFile |-> inputFile,
                lastOutput |-> lastOutput,
                argIn |-> argIn, argOut |-> argOut]]

\* r, run, run_pipeline [in] [out] [--recurse=N]: up to the first await.
\* The model follows one run at a time: a run command typed while another
\* run is suspended is left out (the other commands are not).
run(argIn, argOut, recArg, now) ==
    /\ alive
    /\ lines < MaxLines
    /\ runs = <<>>
    /\ lines' = lines + 1
    /\ UNCHANGED seedVars
    /\ IF Len(pipeline) = 0 THEN
          /\ last' = [cmd |-> "run", msg |-> "Pipeline is empty"]
          /\ UNCHANGED <<pipeline, inputFile, lastOutput, files, runs>>
          /\ UNCHANGED alive
       ELSE IF NoInput(argIn) THEN
          /\ last' = [cmd |-> "run", msg |-> "No input file set"]
          /\ UNCHANGED <<pipeline, inputFile, lastOutput, files, runs>>
          /\ UNCHANGED alive
       ELSE LET frame == NewFrame(argIn, argOut, recArg, now) IN
          IF 0 < frame.recurse THEN
             LET next == Issue(frame, pipeline, 0, 0, frame.initialInput) IN
             /\ runs' = Append(runs, next)
             /\ last' = [cmd |-> "run", msg |-> "await", frame |-> next]
             /\ UNCHANGED <<pipeline, inputFile, lastOutput, files>>
             /\ UNCHANGED alive
          ELSE
             /\ files' = autosave(files, pipeline, inputFile, lastOutput)
             /\ alive' \in Unhandled(files, "autosave")
             /\ last' = [cmd |-> "run", msg |-> "Pipeline finished",
                         frame |-> Finish(frame)]
             /\ UNCHANGED <<pipeline, inputFile, lastOutput, runs>>

\* the pending `await execa` of runs[k] settles (ok: exit status 0) and the
\* handler runs on to its next await or to its end
execaReturns(k, ok) ==
    /\ alive
    /\ LET frame == Settle(runs[k], IF ok THEN "ok" ELSE "failed") IN
       IF StageLoopContinues(frame, pipeline, ok) THEN
          LET next == Issue(frame, pipeline, frame.r, frame.i + 1,
                            NextInput(frame)) IN
          /\ runs' = [runs EXCEPT ![k] = next]
          /\ last' = [cmd |-> "run", msg |-> "await", frame |-> next]
          /\ UNCHANGED <<pipeline, inputFile, lastOutput, files>>
          /\ UNCHANGED alive
       ELSE LET next == NextPass(frame, pipeline, frame.r) IN
          /\ lastOutput' = frame.finalOutput
          /\ IF next.pc = "done" THEN
                /\ runs' = Without(runs, k)
                /\ files' = autosave(files, pipeline, inputFile, lastOutput')
                /\ alive' \in Unhandled(files, "autosave")
                /\ last' = [cmd |-> "run", msg |-> "Pipeline finished",
                            frame |-> next]
             ELSE
                /\ runs' = [runs EXCEPT ![k] = next]
                /\ last' = [cmd |-> "run", msg |-> "await", frame |-> next]
                /\ UNCHANGED files
                /\ UNCHANGED alive
          /\ UNCHANGED <<pipeline, inputFile>>
    /\ UNCHANGED lines
    /\ UNCHANGED seedVars

----------------------------------------------------------------------------
(* The synchronous command handlers (repl.js:307-419, 483-491) *)

RECURSIVE Join(_)
\* args.join(" ")
Join(args) ==
    IF Len(args) = 0 THEN ""
    ELSE IF Len(args) = 1 THEN args[1]
    ELSE args[1] \o " " \o Join(Tail(args))

\* (mutant) pipeline.pop(): the last element goes, whatever the index
Splice_Pop(pl, rmIndex) == [j \in 1 .. (Len(pl) - 1) |-> pl[j]]

\* pipeline.splice(rmIndex, 1): the array without element rmIndex (0-based)
Splice(pl, rmIndex) ==
    [j \in 1 .. (Len(pl) - 1) |-> IF j <= rmIndex THEN pl[j] ELSE pl[j + 1]]

\* (mutant) the lower bound left out
OutOfRange_NoLowerBound(parsed, pl) == parsed - 1 >= Len(pl)

\* `modIndex < 0 || modIndex >= pipeline.length` for the 1-based `parsed`
OutOfRange(parsed, pl) == parsed - 1 < 0 \/ parsed - 1 >= Len(pl)

\* the handler returns early: a message is printed and nothing else happens
Rejected(cmd, msg, arg) ==
    /\ last' = [cmd |-> cmd, msg |-> msg, arg |-> arg]
    /\ UNCHANGED runs
    /\ UNCHANGED <<pipeline, inputFile, lastOutput, files>>
    /\ UNCHANGED alive

\* in <file>          (arg = Null: no argument typed)
in(arg) ==
    /\ alive
    /\ lines < MaxLines
    /\ lines' = lines + 1
    /\ UNCHANGED seedVars
    /\ IF arg = Null THEN Rejected("in", "Usage: in <file>", Null)
       ELSE /\ inputFile' = arg
            /\ files' = autosave(files, pipeline, inputFile', lastOutput)
            /\ alive' \in Unhandled(files, "autosave")
            /\ last' = [cmd |-> "in", msg |-> "Input set"]
            /\ UNCHANGED <<pipeline, lastOutput>>
            /\ UNCHANGED runs

in_last ==
    /\ alive
    /\ lines < MaxLines
    /\ lines' = lines + 1
    /\ UNCHANGED seedVars
    /\ IF ~Truthy(lastOutput)
       THEN Rejected("in_last", "No last output available.", Null)
       ELSE /\ inputFile' = lastOutput
            /\ files' = autosave(files, pipeline, inputFile', lastOutput)
            /\ alive' \in Unhandled(files, "autosave")
            /\ last' = [cmd |-> "in_last", msg |-> "Input set to last output"]
            /\ UNCHANGED <<pipeline, lastOutput>>
            /\ UNCHANGED runs

\* add <id> [name:value ...]
add(addId, pluginParams) ==
    /\ alive
    /\ lines < MaxLines
    /\ \/ PluginsById(addId) = {}
       \/ Len(pipeline) < MaxStages
    /\ lines' = lines + 1
    /\ UNCHANGED seedVars
    /\ IF PluginsById(addId) = {}
       THEN Rejected("add", "No plugin found with ID", addId)
       ELSE /\ \E plug \in PluginsById(addId) :
                  pipeline' = Append(pipeline, Stage(plug, pluginParams))
            /\ files' = autosave(files, pipeline', inputFile, lastOutput)
            /\ alive' \in Unhandled(files, "autosave")
            /\ last' = [cmd |-> "add", msg |-> "Added to pipeline",
                        arg |-> addId]
            /\ UNCHANGED <<inputFile, lastOutput>>
            /\ UNCHANGED runs

\* mod <index> name:value ...     (rest: the arguments after the index)
mod(parsedIdx, rest) ==
    /\ alive
    /\ lines < MaxLines
    /\ lines' = lines + 1
    /\ UNCHANGED seedVars
    /\ IF Len(rest) = 0
       THEN Rejected("mod", "Usage: mod <index> name:value ...", Null)
       ELSE IF OutOfRange(parsedIdx, pipeline)
       THEN Rejected("mod", "Index out of range", parsedIdx)
       ELSE /\ pipeline' = [pipeline EXCEPT ![parsedIdx].params = <<Join(rest)>>]
            /\ files' = autosave(files, pipeline', inputFile, lastOutput)
            /\ alive' \in Unhandled(files, "autosave")
            /\ last' = [cmd |-> "mod", msg |-> "Modified", arg |-> parsedIdx]
            /\ UNCHANGED <<inputFile, lastOutput>>
            /\ UNCHANGED runs

\* rm <index>, remove <index>
rm(parsedRemove) ==
    /\ alive
    /\ lines < MaxLines
    /\ lines' = lines + 1
    /\ UNCHANGED seedVars
    /\ IF OutOfRange(parsedRemove, pipeline)
       THEN Rejected("rm", "Index out of range", parsedRemove)
       ELSE /\ pipeline' = Splice(pipeline, parsedRemove - 1)
            /\ files' = autosave(files, pipeline', inputFile, lastOutput)
            /\ alive' \in Unhandled(files, "autosave")
            /\ last' = [cmd |-> "rm", msg |-> "Removed", arg |-> parsedRemove]
            /\ UNCHANGED <<inputFile, lastOutput>>
            /\ UNCHANGED runs

reset ==
    /\ alive
    /\ lines < MaxLines
    /\ lines' = lines + 1
    /\ UNCHANGED seedVars
    /\ pipeline' = <<>>
    /\ files' = autosave(files, pipeline', inputFile, lastOutput)
    /\ alive' \in Unhandled(files, "autosave")
    /\ last' = [cmd |-> "reset", msg |-> "Pipeline cleared"]
    /\ UNCHANGED <<inputFile, lastOutput>>
    /\ UNCHANGED runs

\* s, save [name]
save(name) ==
    /\ alive
    /\ lines < MaxLines
    /\ lines' = lines + 1
    /\ UNCHANGED seedVars
    /\ files' = saveState(name, files, pipeline, inputFile, lastOutput)
    /\ alive' \in Unhandled(files, name)
    /\ last' = [cmd |-> "save", msg |-> "Saved state", arg |-> name]
    /\ UNCHANGED runs
    /\ UNCHANGED <<pipeline, inputFile, lastOutput>>

\* l, load [name]
load(name) ==
    /\ alive
    /\ lines < MaxLines
    /\ lines' = lines + 1
    /\ UNCHANGED seedVars
    /\ LET s == loadState(name, files, Session) IN
       /\ pipeline' = s.pipeline
       /\ inputFile' = s.inputFile
       /\ lastOutput' = s.lastOutput
    /\ last' = [cmd |-> "load", msg |-> loadMessage(name, files), arg |-> name]
    /\ UNCHANGED runs
    /\ UNCHANGED files
    /\ UNCHANGED alive

----------------------------------------------------------------------------
(* The catalog scan (src/unnamed/part_000).  A bundle on disk is a         *)
(* directory entry: the directory it lies in and its own name.             *)

PLUGIN_DIRS ==
    << "/Library/Audio/Plug-Ins/VST3", "/Library/Audio/Plug-Ins/Components" >>

\* path.join(dir, entry.name)
join(dir, name) == dir \o "/" \o name

\* a directory entry (fs.Dirent) of dir; ext is the end of its name
Dirent(dir, name, ext, isDirectory) ==
    [dir |-> dir, name |-> name, ext |-> ext, isDirectory |-> isDirectory]

\* what lies under the two directories, in the order readdirSync lists it:
\* a bundle and a vendor's folder in the first, a bundle in the second
Disk ==
    << Dirent(PLUGIN_DIRS[1], "Comp.vst3", ".vst3", TRUE),
       Dirent(PLUGIN_DIRS[1], "Private", "", TRUE),
       Dirent(join(PLUGIN_DIRS[1], "Private"), "notes.txt", ".txt", FALSE),
       Dirent(PLUGIN_DIRS[2], "Echo.component", ".component", TRUE) >>

\* entry.name.endsWith(".vst3") || entry.name.endsWith(".component")
IsBundle(entry) == entry.ext \in {".vst3", ".component"}

\* the bundles on disk
Bundles == SelectSeq(Disk, LAMBDA entry : entry.isDirectory /\ IsBundle(entry))

\* the sets of directories the process may not read (readdirSync throws
\* EACCES on them): none, the vendor's folder, the second directory
Unreadable ==
    { {}, {join(PLUGIN_DIRS[1], "Private")}, {PLUGIN_DIRS[2]} }

\* fs.readdirSync(dir, { withFileTypes: true }) of a readable directory
readdirSync(dir) == SelectSeq(Disk, LAMBDA entry : entry.dir = dir)

\* an exception left the function
Threw == [threw |-> TRUE, plugins |-> <<>>]

\* path.basename(pluginPath) of a path findPlugins made
basename(entry) == entry.name

RECURSIVE findPlugins(_, _)
RECURSIVE findPluginsLoop(_, _)

\* the for loop of lines 35-44 over the entries still to visit
findPluginsLoop(entries, unreadable) ==
    IF entries = <<>> THEN [threw |-> FALSE, plugins |-> <<>>]
    ELSE LET entry == Head(entries)
             fullPath == join(entry.dir, entry.name)
             found ==
                 IF ~entry.isDirectory THEN [threw |-> FALSE, plugins |-> <<>>]
                 ELSE IF IsBundle(entry)
                      THEN [threw |-> FALSE, plugins |-> <<entry>>]
                      ELSE findPlugins(fullPath, unreadable)
             later == findPluginsLoop(Tail(entries), unreadable)
         IN IF found.threw \/ later.threw THEN Threw
            ELSE [threw |-> FALSE, plugins |-> found.plugins \o later.plugins]

\* findPlugins(dir): the bundles under dir, each as the entry its path was
\* joined from; readdirSync throws on a directory that cannot be read, and
\* nothing in findPlugins catches it
findPlugins(dir, unreadable) ==
    IF dir \in unreadable THEN Threw
    ELSE findPluginsLoop(readdirSync(dir), unreadable)

\* lines 124-129: both directories exist; the loop is inside no try
allPlugins(unreadable) ==
    LET first == findPlugins(PLUGIN_DIRS[1], unreadable)
        second == findPlugins(PLUGIN_DIRS[2], unreadable)
    IN IF first.threw \/ second.threw THEN Threw
       ELSE [threw |-> FALSE, plugins |-> first.plugins \o second.plugins]

BundlePaths == { join(Bundles[j].dir, Bundles[j].name) : j \in 1 .. Len(Bundles) }

\* one record of listParameters' result
Param(index, name, values) ==
    [param_index |-> index, name |-> name, values |-> values]

\* what listParameters may return for a bundle: no record (the tool failed,
\* timed out, or printed no parameter), or the records of its report
Reports ==
    { <<>>,
      << Param(0, "Gain", "0 to 1"), Param(1, "Mix", "") >>,
      << Param(0, "Drive", "0 to 10") >> }

\* id INTEGER PRIMARY KEY: the id SQLite gives a new row
NextId(table) ==
    IF table = {} THEN 1
    ELSE 1 + CHOOSE m \in { row.id : row \in table } :
                \A row \in table : row.id <= m

\* (mutant) INSERT OR REPLACE INTO plugins: the row of the path is deleted
\* and a new one is inserted
Upsert_InsertOrReplace(table, pluginPath, pluginName) ==
    { row \in table : row.path # pluginPath }
        \cup { PluginRow(NextId(table), pluginPath, pluginName, 0) }

\* INSERT INTO plugins (path, name, last_scanned) VALUES (?, ?, 0)
\* ON CONFLICT(path) DO UPDATE SET name=excluded.name
Upsert(table, pluginPath, pluginName) ==
    IF \E row \in table : row.path = pluginPath
    THEN { IF row.path = pluginPath THEN [row EXCEPT !.name = pluginName]
           ELSE row : row \in table }
    ELSE table \cup { PluginRow(NextId(table), pluginPath, pluginName, 0) }

\* RETURNING id, last_scanned
Returning(table, pluginPath) ==
    LET row == CHOOSE row \in table : row.path = pluginPath
    IN [id |-> row.id, last_scanned |-> row.last_scanned]

\* (mutant) any plugin scanned before is skipped, modified or not
Unchanged_IgnoresMtime(pluginRow, modifiedTime) == pluginRow.last_scanned # 0

\* pluginRow.last_scanned && pluginRow.last_scanned >= modifiedTime
Unchanged(pluginRow, modifiedTime) ==
    pluginRow.last_scanned # 0 /\ pluginRow.last_scanned >= modifiedTime

\* the row insertParam.run writes for p (p.values || "")
ParamRow(plugin_id, p) ==
    [plugin_id |-> plugin_id, param_index |-> p.param_index,
     name |-> p.name, values |-> p.values]

\* lines 99-114: INSERT OR REPLACE of every record, in order; the primary
\* key is (plugin_id, param_index), so a row with the same key gives way
InsertOrReplace(table, plugin_id, params) ==
    { row \in table :
        ~ (row.plugin_id = plugin_id /\
           \E j \in 1 .. Len(params) : params[j].param_index = row.param_index) }
    \cup
    { ParamRow(plugin_id, params[j]) :
        j \in { j \in 1 .. Len(params) :
                  \A k \in (j + 1) .. Len(params) :
                      params[k].param_index # params[j].param_index } }

\* UPDATE plugins SET last_scanned=? WHERE id=?
SetLastScanned(table, plugin_id, now) ==
    { IF row.id = plugin_id THEN [row EXCEPT !.last_scanned = now] ELSE row :
        row \in table }

\* savePlugin(pluginPath, pluginName, parameters): the two tables after the
\* call, the row the upsert returned and the value savePlugin returns
savePlugin(pluginPath, pluginName, params) ==
    LET modifiedTime == mtime[pluginPath]
        upserted == Upsert(plugins, pluginPath, pluginName)
        pluginRow == Returning(upserted, pluginPath)
    IN IF Unchanged(pluginRow, modifiedTime)
       THEN [plugins |-> upserted, parameters |-> parameters,
             pluginRow |-> pluginRow, updated |-> FALSE]
       ELSE [plugins |-> SetLastScanned(upserted, pluginRow.id, clock),
             parameters |-> InsertOrReplace(parameters, pluginRow.id, params),
             pluginRow |-> pluginRow, updated |-> TRUE]

\* (mutant) the test of line 138 left out
NoParameters_Never(params) == FALSE

\* params.length === 0: the listing failed, timed out (listParameters then
\* returns []), or its report held no parameter
NoParameters(params) == Len(params) = 0

\* no seed process is running
Idle == [pc |-> "idle", queue |-> <<>>, calls |-> <<>>]

\* seed(), lines 123-131: the script is started and discovers the bundles.
\* An exception in the discovery rejects the promise seed() returned, which
\* line 153 leaves unhandled: the script ends before its loop.
seed(unreadable) ==
    /\ seeding.pc = "idle"
    /\ LET found == allPlugins(unreadable) IN
          IF found.threw THEN
             /\ seeding' = Idle
             /\ last' = [cmd |-> "seed", msg |-> "EACCES"]
          ELSE
             /\ seeding' = IF found.plugins = <<>> THEN Idle
                           ELSE [pc |-> "loop", queue |-> found.plugins,
                                 calls |-> <<>>]
             /\ last' = [cmd |-> "seed", msg |-> "Found plugins"]
    /\ UNCHANGED <<plugins, parameters, mtime, clock>>
    /\ UNCHANGED replVars

\* one turn of the loop of lines 133-148 for the next discovered bundle:
\* listParameters is awaited and returns params, then savePlugin runs.
\* (What changes on disk during the await is read only after it.)
seedPlugin(params) ==
    /\ seeding.pc = "loop"
    /\ LET entry == Head(seeding.queue)
           pluginPath == join(entry.dir, entry.name)
           pluginName == basename(entry)
           rest == Tail(seeding.queue)
       IN /\ seeding' = [pc |-> IF rest = <<>> THEN "idle" ELSE "loop",
                         queue |-> rest,
                         calls |-> Append(seeding.calls, pluginPath)]
          /\ IF NoParameters(params) THEN
                /\ last' = [cmd |-> "scan", msg |-> "No parameters",
                            path |-> pluginPath]
                /\ UNCHANGED <<plugins, parameters>>
             ELSE LET saved == savePlugin(pluginPath, pluginName, params) IN
                /\ plugins' = saved.plugins
                /\ parameters' = saved.parameters
                /\ last' = [cmd |-> "scan",
                            msg |-> IF saved.updated THEN "seeded"
                                    ELSE "unchanged, skipped",
                            path |-> pluginPath,
                            pluginRow |-> saved.pluginRow]
    /\ UNCHANGED <<mtime, clock>>
    /\ UNCHANGED replVars

\* the bundle is rebuilt or updated on disk: its modification time is now
touch(pluginPath) ==
    /\ mtime[pluginPath] # clock
    /\ mtime' = [mtime EXCEPT ![pluginPath] = clock]
    /\ last' = [cmd |-> "touch", msg |-> "", path |-> pluginPath]
    /\ UNCHANGED <<plugins, parameters, clock, seeding>>
    /\ UNCHANGED replVars

\* a second passes
tick ==
    /\ clock < MaxClock
    /\ clock' = clock + 1
    /\ last' = [cmd |-> "tick", msg |-> ""]
    /\ UNCHANGED <<plugins, parameters, mtime, seeding>>
    /\ UNCHANGED replVars

\* bundles installed before the model's first second
InstalledEarlier == [pluginPath \in BundlePaths |-> 0]

----------------------------------------------------------------------------
(* The process after start-up.  The autosave file, when there is one, was  *)
(* written by an earlier process from a session it had.                    *)

StageA == Stage(PluginRow(1, "/Library/Audio/Plug-Ins/VST3/Comp.vst3",
                          "Comp.vst3", 100), <<>>)
StageB == Stage(PluginRow(2, "/Library/Audio/Plug-Ins/VST3/Verb.vst3",
                          "Verb.vst3", 100), <<"gain:0.5">>)

\* sessions an earlier process may have autosaved, before and after its
\* first run: with no stage, and with as many as the model follows
EarlierSessions ==
    { [pipeline   |-> [j \in 1 .. n |-> IF j % 2 = 1 THEN StageA ELSE StageB],
       inputFile  |-> io[1],
       lastOutput |-> io[2]] :
         n \in {0, MaxStages},
         io \in { <<Null, Null>>,
                  <<Str("", "in", ".wav"), Str(Cwd, "prev", ".wav")>> } }

NoFiles == [name \in FileNames |-> Absent]

\* a session an earlier process had after `in  take.wav` (two blanks: the
\* first argument is the empty string) and a run
BlankInputSession ==
    [pipeline |-> <<StageA, StageB>>, inputFile |-> Empty,
     lastOutput |-> Str(Cwd, "prev", ".wav")]

\* the file state.json when the process starts: written by `save` in an
\* earlier process, or damaged or replaced since
EarlierStateFiles ==
    { JSONstringify(BlankInputSession), Garbage, Foreign }

\* the working directory when the process starts
EarlierFiles ==
    {NoFiles}
    \cup { autosave(NoFiles, s.pipeline, s.inputFile, s.lastOutput) :
              s \in EarlierSessions }
    \cup { [autosave(NoFiles, <<StageA>>, Str("", "in", ".wav"),
                     Str(Cwd, "prev", ".wav"))
             EXCEPT !["state"] = content] : content \in EarlierStateFiles }

Init ==
    /\ files \in EarlierFiles
    /\ pipeline = Startup(files).pipeline
    /\ inputFile = Startup(files).inputFile
    /\ lastOutput = Startup(files).lastOutput
    /\ runs = <<>>
    /\ lines = 0
    /\ alive = TRUE
    /\ last = [cmd |-> "start", msg |-> ""]
    /\ plugins = Catalog
    /\ parameters = {}
    /\ mtime = InstalledEarlier
    /\ clock = 1
    /\ seeding = Idle

Next ==
    \/ \E arg \in {Null, Empty} \cup InArgs : in(arg)
    \/ in_last
    \/ \E addId \in IdArgs, pluginParams \in BindingArgs :
          add(addId, pluginParams)
    \/ \E parsedIdx \in IndexArgs, rest \in BindingArgs : mod(parsedIdx, rest)
    \/ \E parsedRemove \in IndexArgs : rm(parsedRemove)
    \/ reset
    \/ \E name \in NameArgs : save(name)
    \/ \E name \in NameArgs : load(name)
    \/ \E argIn \in {Null} \cup InArgs, argOut \in {Null} \cup OutArgs,
          recArg \in {<<>>} \cup { <<n>> : n \in RecurseArgs },
          now \in Times :
          run(argIn, argOut, recArg, now)
    \/ \E k \in 1 .. Len(runs), ok \in BOOLEAN : execaReturns(k, ok)

Spec == Init /\ [][Next]_vars

----------------------------------------------------------------------------
(* The catalog scan on its own: plugins.db is new (the tables are created  *)
(* empty by lines 14-31), the seed script is run again and again, and      *)
(* bundles change on disk in between.  No REPL is running.                 *)

SeedInit ==
    /\ plugins = {}
    /\ parameters = {}
    /\ mtime = InstalledEarlier
    /\ clock = 1
    /\ seeding = Idle
    /\ pipeline = <<>>
    /\ inputFile = Null
    /\ lastOutput = Null
    /\ files = NoFiles
    /\ runs = <<>>
    /\ lines = 0
    /\ alive = TRUE
    /\ last = [cmd |-> "start", msg |-> ""]

SeedNext ==
    \/ \E unreadable \in Unreadable : seed(unreadable)
    \/ \E params \in Reports : seedPlugin(params)
    \/ \E pluginPath \in BundlePaths : touch(pluginPath)
    \/ tick

SeedSpec == SeedInit /\ [][SeedNext]_vars

----------------------------------------------------------------------------
(* listParameters (src/unnamed/part_000, lines 48-78).  Text is a sequence *)
(* of characters here, so that the tests and conversions of the parser are *)
(* computed on what the tool printed.                                      *)

\* the lines Plugalyzer may print
\* a header
LineGain ==
    <<"0", ":", " ", "G", "a", "i", "n">>

\* a header with blanks around it and a colon in its name
LineAB ==
    <<" ", "1", "2", ":", "A", ":", "B", " ">>

\* metadata
LineValues ==
    <<"V", "a", "l", "u", "e", "s", ":", " ", "0", " ", "t", "o", " ", "1">>

\* metadata
LineDefault ==
    <<"D", "e", "f", "a", "u", "l", "t", ":", " ", "1">>

\* metadata
LineSupports ==
    <<"S", "u", "p", "p", "o", "r", "t", "s", " ", "t", "e", "x", "t", " ", "v", "a", "l", "u", "e", "s", ":", " ", "T", "r", "u", "e">>

\* a line the parser does not know
LineOther ==
    <<"v", "a", "l", "u", "e", "s", " ", "1", ":", "x">>

\* a line of blanks
LineBlank ==
    <<" ">>

StdoutLines ==
    { LineGain,
      LineAB,
      LineValues,
      LineDefault,
      LineSupports,
      LineOther,
      LineBlank }

\* stdout of the call, line by line (stdout.split("\n"))
Stdout ==
    UNION { [1 .. n -> StdoutLines] : n \in 0 .. MaxReportLines }

RECURSIVE trimStart(_)
trimStart(l) ==
    IF l # <<>> /\ Head(l) = " " THEN trimStart(Tail(l)) ELSE l

RECURSIVE trimEnd(_)
trimEnd(l) ==
    IF l # <<>> /\ l[Len(l)] = " " THEN trimEnd(SubSeq(l, 1, Len(l) - 1))
    ELSE l

\* String.prototype.trim
trim(l) == trimEnd(trimStart(l))

\* stdout.split("\n").map(l => l.trim()).filter(Boolean)
TrimmedLines(stdout) ==
    SelectSeq([j \in 1 .. Len(stdout) |-> trim(stdout[j])],
              LAMBDA l : l # <<>>)

Digits == <<"0", "1", "2", "3", "4", "5", "6", "7", "8", "9">>

\* \d
IsDigit(c) == \E d \in 1 .. 10 : Digits[d] = c

DigitValue(c) == (CHOOSE d \in 1 .. 10 : Digits[d] = c) - 1

\* /^\d+:/.test(line)
IsHeader(l) ==
    \E n \in 1 .. (Len(l) - 1) :
        /\ \A j \in 1 .. n : IsDigit(l[j])
        /\ l[n + 1] = ":"

\* the place of the first occurrence of pat in l, 0 when there is none
IndexOf(l, pat) ==
    LET at == { i \in 1 .. (Len(l) - Len(pat) + 1) :
                  SubSeq(l, i, i + Len(pat) - 1) = pat }
    IN IF at = {} THEN 0 ELSE CHOOSE i \in at : \A k \in at : i <= k

RECURSIVE split(_, _)
\* line.split(sep), sep one character
split(l, sep) ==
    LET i == IndexOf(l, <<sep>>)
    IN IF i = 0 THEN <<l>>
       ELSE <<SubSeq(l, 1, i - 1)>> \o split(SubSeq(l, i + 1, Len(l)), sep)

RECURSIVE joinWith(_, _)
\* rest.join(sep)
joinWith(pieces, sep) ==
    IF pieces = <<>> THEN <<>>
    ELSE IF Len(pieces) = 1 THEN pieces[1]
    ELSE pieces[1] \o <<sep>> \o joinWith(Tail(pieces), sep)

RECURSIVE parseIntFrom(_, _)
parseIntFrom(l, acc) ==
    IF l = <<>> \/ ~IsDigit(Head(l)) THEN acc
    ELSE parseIntFrom(Tail(l), acc * 10 + DigitValue(Head(l)))

\* parseInt(index, 10) of a text that starts with a digit
parseInt(l) == parseIntFrom(l, 0)

\* line.startsWith(prefix)
startsWith(l, prefix) ==
    Len(l) >= Len(prefix) /\ SubSeq(l, 1, Len(prefix)) = prefix

\* line.replace(pat, ""): the first occurrence is taken out
replace(l, pat) ==
    LET i == IndexOf(l, pat)
    IN IF i = 0 THEN l
       ELSE SubSeq(l, 1, i - 1) \o SubSeq(l, i + Len(pat), Len(l))

\* the letter in lower case, for the i flag of /true/i
Lower(c) ==
    CASE c = "T" -> "t" [] c = "R" -> "r" [] c = "U" -> "u" [] c = "E" -> "e"
      [] OTHER -> c

\* /true/i.test(line)
TestTrue(l) ==
    IndexOf([j \in 1 .. Len(l) |-> Lower(l[j])], <<"t", "r", "u", "e">>) # 0

\* (mutant) the name cut at its first colon
HeaderName_FirstPiece(rest) == trim(Head(rest))

\* rest.join(":").trim()
HeaderName(rest) == trim(joinWith(rest, ":"))

\* lines 62-63: the record a header line opens
Opened(l) ==
    LET pieces == split(l, ":")
    IN [param_index |-> parseInt(Head(pieces)),
        name |-> HeaderName(Tail(pieces))]

\* if (current) params.push(current)
Flush(params, current) ==
    IF current = Null THEN params ELSE Append(params, current)

\* current.field = value
SetField(current, field, value) == (field :> value) @@ current

\* the seed process inside listParameters, before the loop of line 59
Listing(stdout) ==
    [pc |-> "parse", stdout |-> stdout, rest |-> TrimmedLines(stdout),
     current |-> Null, params |-> <<>>]

\* listParameters has returned result
Returned(stdout, result, threw) ==
    [pc |-> "returned", stdout |-> stdout, result |-> result, threw |-> threw]

\* one turn of the loop of lines 59-71.  A metadata line while current is
\* null is a TypeError, which the catch of lines 74-77 turns into [].
parseLine ==
    /\ seeding.pc = "parse"
    /\ seeding.rest # <<>>
    /\ LET line == Head(seeding.rest)
           current == seeding.current
           meta == CASE startsWith(line, <<"V", "a", "l", "u", "e", "s", ":">>) ->
                          <<"values", trim(replace(line, <<"V", "a", "l", "u", "e", "s", ":">>))>>
                     [] startsWith(line, <<"D", "e", "f", "a", "u", "l", "t", ":">>) ->
                          <<"default_value", trim(replace(line, <<"D", "e", "f", "a", "u", "l", "t", ":">>))>>
                     [] startsWith(line, <<"S", "u", "p", "p", "o", "r", "t", "s", " ", "t", "e", "x", "t", " ", "v", "a", "l", "u", "e", "s", ":">>) ->
                          <<"supports_text", TestTrue(line)>>
                     [] OTHER -> <<>>
       IN IF IsHeader(line) THEN
             /\ seeding' = [seeding EXCEPT
                               !.rest = Tail(seeding.rest),
                               !.params = Flush(seeding.params, current),
                               !.current = Opened(line)]
             /\ last' = [cmd |-> "parse", msg |-> "header"]
          ELSE IF meta = <<>> THEN
             /\ seeding' = [seeding EXCEPT !.rest = Tail(seeding.rest)]
             /\ last' = [cmd |-> "parse", msg |-> "unrecognized"]
          ELSE IF current = Null THEN
             /\ seeding' = Returned(seeding.stdout, <<>>, TRUE)
             /\ last' = [cmd |-> "parse", msg |-> "Failed to list parameters"]
          ELSE
             /\ seeding' = [seeding EXCEPT
                               !.rest = Tail(seeding.rest),
                               !.current = SetField(current, meta[1], meta[2])]
             /\ last' = [cmd |-> "parse", msg |-> "metadata"]
    /\ UNCHANGED <<plugins, parameters, mtime, clock>>
    /\ UNCHANGED replVars

\* lines 72-73: the loop is over, the open record is flushed, params returned
parseEnd ==
    /\ seeding.pc = "parse"
    /\ seeding.rest = <<>>
    /\ seeding' = Returned(seeding.stdout,
                           Flush(seeding.params, seeding.current), FALSE)
    /\ last' = [cmd |-> "parse", msg |-> "returned"]
    /\ UNCHANGED <<plugins, parameters, mtime, clock>>
    /\ UNCHANGED replVars

----------------------------------------------------------------------------
(* The usable parameters of a plugin: `show <id>` of the REPL (src/repl.js *)
(* lines 338-357) and getParameters of the randomizer                      *)
(* (src/unnamed/part_001, lines 227-237).  Names and values are sequences  *)
(* of characters, as in the parser that produced them.                     *)

\* names the tool reports
NameGain == <<"G", "a", "i", "n">>
NameMidi == <<"M", "I", "D", "I", " ", "C", "C", " ", "1">>

\* values texts the seed script stores: a range, none (p.values || ""),
\* and what is left of a range without its ends
ValuesRange == <<"0", " ", "t", "o", " ", "1">>
ValuesNone == <<>>
ValuesTo == <<"t", "o">>

\* what the parameters table may hold at an index of a plugin
Stored ==
    { [present |-> FALSE] } \cup
    { [present |-> TRUE, name |-> name, values |-> values] :
        name \in {NameGain, NameMidi},
        values \in {ValuesRange, ValuesNone, ValuesTo} }

\* the parameters tables: any rows for plugin 1, one row for plugin 2.
\* The "values" column holds a text in every row (every revision of the
\* seed script binds one), so "values" IS NOT NULL holds of each.
StoredTables ==
    { { [plugin_id |-> 1, param_index |-> j, name |-> f[j].name,
         values |-> f[j].values] :
          j \in { j \in 0 .. (MaxParams - 1) : f[j].present } }
      \cup { [plugin_id |-> 2, param_index |-> 0, name |-> NameGain,
              values |-> ValuesRange] } :
        f \in [0 .. (MaxParams - 1) -> Stored] }

\* TRIM(X) of SQLite: the spaces at both ends are removed
TRIM(x) == trimEnd(trimStart(x))

\* the letter as LIKE compares it (ASCII letters without regard to case)
Fold(c) ==
    CASE c = "m" -> "M" [] c = "i" -> "I" [] c = "d" -> "D" [] c = "c" -> "C"
      [] OTHER -> c

\* X LIKE 'prefix%'
LikePrefix(x, prefix) ==
    /\ Len(x) >= Len(prefix)
    /\ \A j \in 1 .. Len(prefix) : Fold(x[j]) = Fold(prefix[j])

\* the WHERE clause of getParameters
UsableValues(row, plugin_id) ==
    /\ row.plugin_id = plugin_id
    /\ TRIM(row.values) # <<>>
    /\ TRIM(row.values) # <<"t", "o">>

\* the WHERE clause of show
Usable(row, plugin_id) ==
    /\ row.plugin_id = plugin_id
    /\ ~LikePrefix(row.name, <<"M", "I", "D", "I", " ", "C", "C">>)
    /\ TRIM(row.values) # <<>>
    /\ TRIM(row.values) # <<"t", "o">>

\* show <id>
show(id) ==
    /\ alive
    /\ lines < MaxLines
    /\ lines' = lines + 1
    /\ UNCHANGED seedVars
    /\ last' = IF PluginsById(id) = {}
               THEN [cmd |-> "show", msg |-> "No plugin found with ID",
                     arg |-> id]
               ELSE [cmd |-> "show", msg |-> "Plugin", arg |-> id,
                     params |-> { row \in parameters : Usable(row, id) }]
    /\ UNCHANGED <<pipeline, inputFile, lastOutput, files, runs>>
    /\ UNCHANGED alive

\* getParameters(plugin_id) of the randomizer
getParameters(plugin_id) ==
    /\ last' = [cmd |-> "getParameters", msg |-> "", arg |-> plugin_id,
                params |-> { row \in parameters :
                               UsableValues(row, plugin_id) }]
    /\ UNCHANGED replVars
    /\ UNCHANGED seedVars

----------------------------------------------------------------------------
(* The seed script as src/seed.js has it (lines 117-254), run on a new     *)
(* plugins.db.  Discovery, the listing and the loop are those of           *)
(* part_000; savePlugin differs in what it inserts.                        *)

\* INSERT INTO plugins (path, name, last_scanned) VALUES (?, ?, ?)
\* ON CONFLICT(path) DO UPDATE SET name=excluded.name, the third value
\* being modifiedTime
UpsertScanned(table, pluginPath, pluginName, modifiedTime) ==
    IF \E row \in table : row.path = pluginPath
    THEN { IF row.path = pluginPath THEN [row EXCEPT !.name = pluginName]
           ELSE row : row \in table }
    ELSE table \cup
           { PluginRow(NextId(table), pluginPath, pluginName, modifiedTime) }

\* savePlugin of src/seed.js, lines 190-222
savePluginScanned(pluginPath, pluginName, params) ==
    LET modifiedTime == mtime[pluginPath]
        upserted == UpsertScanned(plugins, pluginPath, pluginName, modifiedTime)
        pluginRow == Returning(upserted, pluginPath)
    IN IF Unchanged(pluginRow, modifiedTime)
       THEN [plugins |-> upserted, parameters |-> parameters,
             pluginRow |-> pluginRow, updated |-> FALSE]
       ELSE [plugins |-> SetLastScanned(upserted, pluginRow.id, clock),
             parameters |-> InsertOrReplace(parameters, pluginRow.id, params),
             pluginRow |-> pluginRow, updated |-> TRUE]

\* one turn of the loop of src/seed.js, lines 234-249
seedPluginScanned(params) ==
    /\ seeding.pc = "loop"
    /\ LET entry == Head(seeding.queue)
           pluginPath == join(entry.dir, entry.name)
           pluginName == basename(entry)
           rest == Tail(seeding.queue)
       IN /\ seeding' = [pc |-> IF rest = <<>> THEN "idle" ELSE "loop",
                         queue |-> rest,
                         calls |-> Append(seeding.calls, pluginPath)]
          /\ IF NoParameters(params) THEN
                /\ last' = [cmd |-> "scan", msg |-> "No parameters",
                            path |-> pluginPath]
                /\ UNCHANGED <<plugins, parameters>>
             ELSE LET saved == savePluginScanned(pluginPath, pluginName, params) IN
                /\ plugins' = saved.plugins
                /\ parameters' = saved.parameters
                /\ last' = [cmd |-> "scan",
                            msg |-> IF saved.updated THEN "seeded"
                                    ELSE "unchanged, skipped",
                            path |-> pluginPath,
                            pluginRow |-> saved.pluginRow]
    /\ UNCHANGED <<mtime, clock>>
    /\ UNCHANGED replVars

SeedJsNext ==
    \/ \E unreadable \in Unreadable : seed(unreadable)
    \/ \E params \in Reports : seedPluginScanned(params)
    \/ \E pluginPath \in BundlePaths : touch(pluginPath)
    \/ tick

SeedJsSpec == SeedInit /\ [][SeedJsNext]_vars

----------------------------------------------------------------------------
(* listParameters on its own: the tool has printed a report and the parser *)
(* goes through it.                                                        *)

ParserInit ==
    /\ seeding \in { Listing(stdout) : stdout \in Stdout }
    /\ plugins = {}
    /\ parameters = {}
    /\ mtime = InstalledEarlier
    /\ clock = 1
    /\ pipeline = <<>>
    /\ inputFile = Null
    /\ lastOutput = Null
    /\ files = NoFiles
    /\ runs = <<>>
    /\ lines = 0
    /\ alive = TRUE
    /\ last = [cmd |-> "start", msg |-> ""]

ParserNext ==
    \/ parseLine
    \/ parseEnd

ParserSpec == ParserInit /\ [][ParserNext]_vars

----------------------------------------------------------------------------
(* The catalog as the seed script left it, read by the REPL's show and by  *)
(* the randomizer.                                                         *)

ShowInit ==
    /\ plugins = Catalog
    /\ parameters \in StoredTables
    /\ mtime = InstalledEarlier
    /\ clock = 1
    /\ seeding = Idle
    /\ pipeline = <<>>
    /\ inputFile = Null
    /\ lastOutput = Null
    /\ files = NoFiles
    /\ runs = <<>>
    /\ lines = 0
    /\ alive = TRUE
    /\ last = [cmd |-> "start", msg |-> ""]

ShowNext ==
    \/ \E id \in IdArgs : show(id)
    \/ \E plugin_id \in IdArgs : getParameters(plugin_id)

ShowSpec == ShowInit /\ [][ShowNext]_vars

----------------------------------------------------------------------------
(* The REPL started where autosave.json cannot be written: start-up finds  *)
(* the path, fails to read it (the catch of loadState) and begins with the *)
(* empty session.                                                          *)

WriteInit ==
    /\ files \in { [name \in FileNames |->
                       IF name = "autosave" THEN Locked ELSE content] :
                    content \in {Absent, Locked} }
    /\ pipeline = Startup(files).pipeline
    /\ inputFile = Startup(files).inputFile
    /\ lastOutput = Startup(files).lastOutput
    /\ runs = <<>>
    /\ lines = 0
    /\ alive = TRUE
    /\ last = [cmd |-> "start", msg |-> ""]
    /\ plugins = Catalog
    /\ parameters = {}
    /\ mtime = InstalledEarlier
    /\ clock = 1
    /\ seeding = Idle

WriteSpec == WriteInit /\ [][Next]_vars

----------------------------------------------------------------------------
(* The REPL with every external invocation returning in the end: a pending *)
(* `await execa` is settled by the exit of the child process, which does   *)
(* not wait for anything the operator types.                               *)

\* the process starts on the snapshot of a session that can be run (one
\* stage and a default input: stages can still be added), beside a saved
\* state that `load` can read
RunnableFiles ==
    { fs \in EarlierFiles :
        /\ Len(Startup(fs).pipeline) = 1
        /\ fs["state"] = JSONstringify(BlankInputSession) }

LiveInit ==
    /\ Init
    /\ files \in RunnableFiles

LiveSpec ==
    /\ LiveInit
    /\ [][Next]_vars
    /\ WF_vars(\E k \in 1 .. Len(runs), ok \in BOOLEAN : execaReturns(k, ok))

----------------------------------------------------------------------------
(* What the claims speak about *)

\* the run handlers visible in a state: the suspended ones and the one
\* that took the last step
Frames ==
    { runs[k] : k \in 1 .. Len(runs) } \cup
    (IF last.cmd = "run" /\ "frame" \in DOMAIN last THEN {last.frame} ELSE {})

\* the last step ended a run; last.frame is that run
Finished == last.cmd = "run" /\ last.msg = "Pipeline finished"

AllOk(log) == \A j \in 1 .. Len(log) : log[j].result = "ok"

\* a pass of the run completed: its last stage was invoked and succeeded
\* (the last stage is the one given the final output)
PassCompleted(f) ==
    \E j \in 1 .. Len(f.log) :
        f.log[j].result = "ok" /\ f.log[j].output = f.finalOutput

----------------------------------------------------------------------------
(* C1: a run started on N >= 1 stages with pass count R >= 1, all of whose *)
(* invocations succeed, makes exactly N*R invocations, pass by pass and,   *)
(* within a pass, stage by stage.                                          *)
C1_ExactlyNxR ==
    Finished =>
        LET f == last.frame
            n == f.start.n
        IN (f.recurse >= 1 /\ n >= 1 /\ AllOk(f.log)) =>
              /\ Len(f.log) = n * f.recurse
              /\ \A j \in 1 .. Len(f.log) :
                    /\ f.log[j].pass = (j - 1) \div n
                    /\ f.log[j].stage = (j - 1) % n

(* C2: once an invocation of a run has failed, the run makes no further    *)
(* invocation (the count stops at the failing one).                        *)
C2_StopsAtFailure ==
    \A f \in Frames :
        \A a, b \in 1 .. Len(f.log) :
            (a < b) => f.log[a].result # "failed"

(* C3: when the invocation of stage i fails, no later stage of the same    *)
(* pass is invoked.                                                        *)
C3_RestOfPassAbandoned ==
    \A f \in Frames :
        \A a, b \in 1 .. Len(f.log) :
            (f.log[a].result = "failed" /\ f.log[b].pass = f.log[a].pass)
                => f.log[b].stage <= f.log[a].stage

\* a stage failed while a later stage existed, and the run went on or ended
C3_Witness ==
    \E f \in Frames :
        \E a \in 1 .. Len(f.log) :
            /\ f.log[a].result = "failed"
            /\ f.log[a].stage = 0
            /\ f.log[a].output # f.finalOutput
            /\ (a < Len(f.log) \/ f.pc = "done")

(* C4: a run in which no pass completed leaves lastOutput as it was when   *)
(* the run started.                                                        *)
C4_LastOutputOnlyOnPassSuccess ==
    Finished =>
        LET f == last.frame
        IN ~PassCompleted(f) => lastOutput = f.start.lastOutput

(* C5: after a run all of whose invocations succeeded, lastOutput is the   *)
(* run's final output path, which is the resolved `out` argument when one  *)
(* was given.                                                              *)
C5_LastOutputIsFinalOutput ==
    Finished =>
        LET f == last.frame
        IN AllOk(f.log) =>
              /\ lastOutput = f.finalOutput
              /\ Truthy(f.start.argOut) => f.finalOutput = resolve(f.start.argOut)

(* C6: within a pass every invoked stage i > 0 is given as input the       *)
(* output path given to stage i - 1 of that pass, and stage 0 of the first *)
(* pass is given the run's starting input: the resolved explicit argument, *)
(* else the resolved default input of the session.                         *)
C6_InputChaining ==
    \A f \in Frames :
        \A j \in 1 .. Len(f.log) :
            /\ f.log[j].stage > 0 =>
                  /\ j > 1
                  /\ f.log[j - 1].pass = f.log[j].pass
                  /\ f.log[j - 1].stage = f.log[j].stage - 1
                  /\ f.log[j].input = f.log[j - 1].output
            /\ (f.log[j].pass = 0 /\ f.log[j].stage = 0) =>
                  /\ j = 1
                  /\ f.log[j].input =
                        IF Truthy(f.start.argIn) THEN resolve(f.start.argIn)
                        ELSE resolve(f.start.inputFile)

\* a second stage has been invoked in a run that took the session's
\* default input
C6_Witness ==
    \E f \in Frames :
        /\ Len(f.log) >= 2
        /\ f.log[2].stage = 1
        /\ f.start.argIn = Null
        /\ f.log[1].input = Str(Cwd, "in", ".wav")
        /\ f.log[2].input = Str("", "/cwd/in_r1_step1", ".wav")

(* C7: on every pass after the first, stage 0 is given as input the final  *)
(* output the previous pass of the same run produced.                      *)
C7_NextPassInput ==
    \A f \in Frames :
        \A j \in 1 .. Len(f.log) :
            (f.log[j].pass > 0 /\ f.log[j].stage = 0) =>
                \E k \in 1 .. (j - 1) :
                    /\ f.log[k].pass = f.log[j].pass - 1
                    /\ f.log[k].result = "ok"
                    /\ f.log[k].output = f.finalOutput
                    /\ f.log[j].input = f.log[k].output

(* C8: within one run the final output path is given only to the last      *)
(* stage of the last pass, and no two invocations of the run are given the *)
(* same output path.                                                       *)
C8_OutputsDistinct ==
    \A f \in Frames :
        \A a, b \in 1 .. Len(f.log) :
            /\ f.log[a].output = f.finalOutput => f.log[a].pass = f.recurse - 1
            /\ (a # b) => f.log[a].output # f.log[b].output

(* C9: a run command typed when there is neither an explicit input         *)
(* argument nor a default input makes no invocation and leaves the         *)
(* session, and its snapshots, as they were.                               *)
C9_NoInputFailsFast ==
    [][ \A argOut \in {Null} \cup OutArgs,
           recArg \in {<<>>} \cup { <<n>> : n \in RecurseArgs },
           now \in Times :
           (~Truthy(inputFile) /\ run(Null, argOut, recArg, now)) =>
               /\ UNCHANGED <<pipeline, inputFile, lastOutput, files, runs>>
               /\ "frame" \notin DOMAIN last'
      ]_vars

\* a run command was turned down for want of an input, on a pipeline that
\* has stages
C9_Witness ==
    /\ last.cmd = "run"
    /\ last.msg = "No input file set"
    /\ Len(pipeline) > 0
    /\ ~Truthy(inputFile)

(* C10: mod and rm with the 1-based index 0, or an index above the stage   *)
(* count, fail and leave the session as it was.                            *)
C10_IndexBounds ==
    [][ \A idx \in IndexArgs :
           ((idx = 0 \/ idx > Len(pipeline)) /\
            (rm(idx) \/ \E rest \in BindingArgs : mod(idx, rest))) =>
               /\ UNCHANGED <<pipeline, inputFile, lastOutput, files>>
               /\ last'.msg \in {"Index out of range",
                                 "Usage: mod <index> name:value ..."}
      ]_vars

\* mod or rm was turned down on a pipeline that has stages: for an index
\* above the stage count, and for index 0
C10_Witness ==
    /\ last.cmd \in {"mod", "rm"}
    /\ last.msg = "Index out of range"
    /\ last.arg > Len(pipeline)
    /\ Len(pipeline) > 0

C10_WitnessLow ==
    /\ last.cmd \in {"mod", "rm"}
    /\ last.msg = "Index out of range"
    /\ last.arg = 0
    /\ Len(pipeline) > 0

(* C11: add with a plugin id the catalog does not hold fails and leaves the *)
(* session and its snapshots as they were; add with a known id appends     *)
(* exactly one stage, of that plugin and with the typed bindings, after    *)
(* the existing stages, which stay as they were.                           *)
C11_AddStage ==
    [][ \A addId \in IdArgs, pluginParams \in BindingArgs :
           add(addId, pluginParams) =>
              IF PluginsById(addId) = {}
              THEN /\ UNCHANGED <<pipeline, inputFile, lastOutput, files>>
                   /\ last'.msg = "No plugin found with ID"
              ELSE /\ Len(pipeline') = Len(pipeline) + 1
                   /\ SubSeq(pipeline', 1, Len(pipeline)) = pipeline
                   /\ pipeline'[Len(pipeline')].id = addId
                   /\ pipeline'[Len(pipeline')].params = pluginParams
                   /\ UNCHANGED <<inputFile, lastOutput>>
      ]_vars

\* a stage with two bindings was added after an existing stage
C11_Witness ==
    /\ last.cmd = "add"
    /\ last.msg = "Added to pipeline"
    /\ Len(pipeline) = 2
    /\ pipeline[2].id = 1
    /\ pipeline[2].params = <<"gain:0.5", "mix:1">>

\* add was turned down for an id the catalog does not hold
C11_WitnessUnknown ==
    /\ last.cmd = "add"
    /\ last.msg = "No plugin found with ID"
    /\ last.arg = 3
    /\ Len(pipeline) > 0

(* C12: after a successful mod the bindings of the addressed stage are the *)
(* typed bindings, one element each, and every other stage is as it was.   *)
C12_ModReplacesBindings ==
    [][ \A parsedIdx \in IndexArgs, rest \in BindingArgs :
           (mod(parsedIdx, rest) /\ last'.msg = "Modified") =>
              /\ Len(pipeline') = Len(pipeline)
              /\ pipeline'[parsedIdx].params = rest
              /\ pipeline'[parsedIdx].id = pipeline[parsedIdx].id
              /\ \A j \in 1 .. Len(pipeline) :
                     j # parsedIdx => pipeline'[j] = pipeline[j]
      ]_vars

(* C13: rm with a valid 1-based index removes the stage at that position   *)
(* and no other: one stage fewer, the others in their order and unchanged. *)
C13_RemoveStage ==
    [][ \A parsedRemove \in IndexArgs :
           (rm(parsedRemove) /\ ~OutOfRange(parsedRemove, pipeline)) =>
              /\ Len(pipeline') = Len(pipeline) - 1
              /\ \A j \in 1 .. Len(pipeline') :
                     pipeline'[j] = IF j < parsedRemove THEN pipeline[j]
                                    ELSE pipeline[j + 1]
              /\ last'.msg = "Removed"
      ]_vars

\* the first of two stages was removed; the second is what remains
C13_Witness ==
    /\ last.cmd = "rm"
    /\ last.msg = "Removed"
    /\ last.arg = 1
    /\ Len(pipeline) = 1
    /\ pipeline[1].id = 2

\* the last step was a mutating command that went through
Mutated ==
    /\ last.cmd \in {"add", "mod", "rm", "reset", "in", "in_last"}
    /\ last.msg \in {"Added to pipeline", "Modified", "Removed",
                     "Pipeline cleared", "Input set",
                     "Input set to last output"}

(* C14: when a mutating command (add, mod, rm, reset, in, in_last) has     *)
(* gone through, and when a run has ended, the automatic snapshot on disk  *)
(* is the session in memory.                                               *)
C14_AutosaveIsSession ==
    (Mutated \/ Finished) => files["autosave"] = JSONstringify(Session)

\* a run that made invocations has ended and its final output is in the
\* automatic snapshot, which held something else when the run started
C14_Witness ==
    /\ Finished
    /\ Len(last.frame.log) >= 1
    /\ last.frame.start.lastOutput # last.frame.finalOutput
    /\ files["autosave"].value.lastOutput = last.frame.finalOutput

\* a mutating command went through while a run was suspended
C14_WitnessDuringRun ==
    /\ Mutated
    /\ runs # <<>>
    /\ files["autosave"].value.pipeline = pipeline

\* the content is a snapshot as saveState writes it
WellFormed(content) ==
    /\ Parses(content)
    /\ DOMAIN content.value = {"pipeline", "inputFile", "lastOutput"}

(* C15: load of a snapshot that save wrote (in this process or in an       *)
(* earlier one) makes the session in memory the session that was saved:    *)
(* the same stages in the same order, default input and last output.       *)
C15_RoundTrip ==
    [][ \A name \in NameArgs :
           (load(name) /\ WellFormed(files[name])) =>
              /\ pipeline' = files[name].value.pipeline
              /\ inputFile' = files[name].value.inputFile
              /\ lastOutput' = files[name].value.lastOutput
      ]_vars

(* C16: load of a snapshot that is missing, is not JSON, or is JSON but no *)
(* well-formed session, is reported and leaves the stage list, the default *)
(* input and the last output as they were.                                 *)
C16_LoadFailureLeavesSession ==
    [][ \A name \in NameArgs :
           (load(name) /\ ~WellFormed(files[name])) =>
              /\ UNCHANGED <<pipeline, inputFile, lastOutput>>
              /\ last'.msg \in {"No saved state found", "Failed to load state"}
      ]_vars

\* the path of the bundle the seed loop turns to next
NextPath == join(Head(seeding.queue).dir, Head(seeding.queue).name)

\* the row the catalog holds for a path (there is one)
RowOf(table, pluginPath) == CHOOSE row \in table : row.path = pluginPath

Cataloged(table, pluginPath) == \E row \in table : row.path = pluginPath

(* C17: a scan of a plugin whose catalog row has a non-zero last_scanned   *)
(* that is at least the bundle's modification time makes no external       *)
(* parameter listing.                                                      *)
C17_UnchangedNotListed ==
    [][ \A params \in Reports :
           (seedPlugin(params) /\ Cataloged(plugins, NextPath)
              /\ Unchanged(RowOf(plugins, NextPath), mtime[NextPath])) =>
                 seeding'.calls = seeding.calls
      ]_vars

(* C18: a scan of a plugin whose bundle was modified after its recorded    *)
(* last_scanned makes the external listing and, when the listing yields at *)
(* least one parameter, stores every listed parameter for the plugin and   *)
(* sets its last_scanned to the current time.                              *)
C18_ModifiedRescanned ==
    [][ \A params \in Reports :
           (seedPlugin(params) /\ Cataloged(plugins, NextPath)
              /\ mtime[NextPath] > RowOf(plugins, NextPath).last_scanned) =>
                 /\ seeding'.calls = Append(seeding.calls, NextPath)
                 /\ Len(params) > 0 =>
                       /\ \A j \in 1 .. Len(params) :
                             ParamRow(RowOf(plugins, NextPath).id, params[j])
                                 \in parameters'
                       /\ RowOf(plugins', NextPath).last_scanned = clock
                       /\ last'.msg = "seeded"
      ]_vars

\* a plugin scanned before has been scanned again after its bundle was
\* modified, and holds the parameters of the new report
C18_Witness ==
    /\ last.cmd = "scan"
    /\ last.msg = "seeded"
    /\ last.pluginRow.last_scanned # 0
    /\ mtime[last.path] > last.pluginRow.last_scanned
    /\ RowOf(plugins, last.path).last_scanned = clock
    /\ ParamRow(last.pluginRow.id, Param(0, "Drive", "0 to 10")) \in parameters

(* C19: the catalog never holds two rows for one bundle path, and a scan   *)
(* of a path already in the catalog keeps the row's id, changes no other   *)
(* row, adds none, and its upsert hands back the last_scanned the row had. *)
C19_UpsertIdempotent ==
    /\ [](\A a, b \in plugins : a.path = b.path => a = b)
    /\ [][ \A params \in Reports :
             (seedPlugin(params) /\ Len(params) > 0
                /\ Cataloged(plugins, NextPath)) =>
                   LET old == RowOf(plugins, NextPath)
                       new == RowOf(plugins', NextPath)
                   IN /\ new.id = old.id
                      /\ last'.pluginRow = [id |-> old.id,
                                            last_scanned |-> old.last_scanned]
                      /\ { row.id : row \in plugins' } = { row.id : row \in plugins }
                      /\ \A row \in plugins :
                            row.path # NextPath => row \in plugins'
        ]_vars

\* a path already in the catalog was found again and skipped: the catalog
\* holds both bundles once
C19_Witness ==
    /\ last.cmd = "scan"
    /\ last.msg = "unchanged, skipped"
    /\ Cardinality(plugins) = 2
    /\ \E row \in plugins : row.path = last.path /\ row.id = last.pluginRow.id

(* C20: while a run is suspended in an external invocation no other        *)
(* command is handled, so the stage list the run reads does not change     *)
(* between its stages.                                                     *)
C20_NoCommandDuringRun ==
    [][ runs # <<>> => (lines' = lines /\ pipeline' = pipeline) ]_vars

\* the text of a path
PathText(p) == p.dir \o p.stem \o p.ext

(* C28: whenever no run is in progress and the command loop waits for the  *)
(* next line, the automatic snapshot on disk holds the session that is in  *)
(* memory (and the session is empty when there is no such snapshot), so    *)
(* that a restart would restore it.                                        *)
C28_RestartContinuity ==
    (runs = <<>>) =>
        IF existsSync(files, "autosave")
        THEN files["autosave"] = JSONstringify(Session)
        ELSE Session = EmptySession

(* C29: no invocation of a run is given an output path equal to its input  *)
(* path.                                                                   *)
C29_OutputIsNotInput ==
    \A f \in Frames :
        \A j \in 1 .. Len(f.log) :
            PathText(f.log[j].output) # PathText(f.log[j].input)

\* the rows the parameters table holds for a plugin
ParamsOf(table, plugin_id) == { row \in table : row.plugin_id = plugin_id }

(* C23: after a scan that stored a report for a plugin, the parameter rows *)
(* of that plugin are exactly the rows of the new report: no row of an     *)
(* index the new report lacks is left.                                     *)
C23_ParametersReplaced ==
    [][ \A params \in Reports :
           (seedPlugin(params) /\ last'.msg = "seeded") =>
               ParamsOf(parameters', last'.pluginRow.id) =
                   { ParamRow(last'.pluginRow.id, params[j]) :
                        j \in 1 .. Len(params) }
      ]_vars

(* C24: when the listing of a plugin fails, times out or yields no         *)
(* parameter, the plugins and parameters tables are left as they were (the *)
(* plugin's last_scanned included) and the scan goes on to the next        *)
(* discovered plugin.                                                      *)
C24_FailedListingSkipped ==
    [][ (seeding.pc = "loop" /\ seedPlugin(<<>>)) =>
           /\ plugins' = plugins
           /\ parameters' = parameters
           /\ seeding'.queue = Tail(seeding.queue)
           /\ seeding'.pc = IF Tail(seeding.queue) = <<>> THEN "idle" ELSE "loop"
      ]_vars

\* the listing of the first bundle failed, for a plugin never scanned, and
\* the loop is at the second bundle
C24_Witness ==
    /\ last.cmd = "scan"
    /\ last.msg = "No parameters"
    /\ ~Cataloged(plugins, last.path)
    /\ seeding.pc = "loop"
    /\ Len(seeding.queue) = 1

\* the listing failed for a plugin scanned before, whose bundle has changed
\* since: its row and parameters are still there
C24_WitnessStale ==
    /\ last.cmd = "scan"
    /\ last.msg = "No parameters"
    /\ Cataloged(plugins, last.path)
    /\ RowOf(plugins, last.path).last_scanned # 0
    /\ RowOf(plugins, last.path).last_scanned < mtime[last.path]
    /\ ParamsOf(parameters, RowOf(plugins, last.path).id) # {}

RECURSIVE Within(_, _)
\* dir is one of the directories of the set or lies below one
Within(dir, unreadable) ==
    \/ dir \in unreadable
    \/ \E j \in 1 .. Len(Disk) :
          /\ join(Disk[j].dir, Disk[j].name) = dir
          /\ Within(Disk[j].dir, unreadable)

(* C27: when a directory cannot be read, discovery still returns every     *)
(* bundle that lies outside that directory's subtree, in the other         *)
(* subtrees and under the other root, and the scan loop is entered with    *)
(* them.                                                                   *)
C27_UnreadableSubtreeSkipped ==
    [][ \A unreadable \in Unreadable :
           seed(unreadable) =>
               \A j \in 1 .. Len(Bundles) :
                   ~Within(Bundles[j].dir, unreadable) =>
                       \E k \in 1 .. Len(seeding'.queue) :
                           seeding'.queue[k] = Bundles[j]
      ]_vars

(* C30: in every catalog state a plugin whose last_scanned is not 0 has at *)
(* least one parameter row.                                                *)
C30_ScannedHasParameters ==
    \A row \in plugins :
        row.last_scanned # 0 => ParamsOf(parameters, row.id) # {}

\* how a printed line is to be read: a header with its index and its name,
\* a metadata line, another line, or a blank one
Reading(raw) ==
    CASE raw = LineGain -> [kind |-> "header", index |-> 0, name |-> <<"G", "a", "i", "n">>]
      [] raw = LineAB -> [kind |-> "header", index |-> 12, name |-> <<"A", ":", "B">>]
      [] raw \in {LineValues, LineDefault, LineSupports} -> [kind |-> "metadata"]
      [] raw = LineOther -> [kind |-> "other"]
      [] raw = LineBlank -> [kind |-> "blank"]

\* the header lines of a report, in order
Headers(stdout) ==
    SelectSeq(stdout, LAMBDA raw : Reading(raw).kind = "header")

\* every metadata line of the report comes after some header line
MetadataFollowsHeader(stdout) ==
    \A j \in 1 .. Len(stdout) :
        Reading(stdout[j]).kind = "metadata" =>
            \E i \in 1 .. (j - 1) : Reading(stdout[i]).kind = "header"

(* C21: for a report whose metadata lines all follow a header, the parser  *)
(* returns one record per header line, in the order of the header lines,   *)
(* each with the index and the name of its header; a report without header *)
(* lines yields the empty sequence; and a line the parser does not know    *)
(* leaves the records collected so far and the open record as they were.   *)
C21_ParserRecords ==
    /\ [](seeding.pc = "returned" =>
            LET hs == Headers(seeding.stdout)
                result == seeding.result
            IN /\ MetadataFollowsHeader(seeding.stdout) =>
                     /\ Len(result) = Len(hs)
                     /\ \A j \in 1 .. Len(hs) :
                           /\ result[j].param_index = Reading(hs[j]).index
                           /\ result[j].name = Reading(hs[j]).name
               /\ hs = <<>> => result = <<>>)
    /\ [][ (/\ seeding.pc = "parse"
            /\ seeding.rest # <<>>
            /\ Head(seeding.rest) = LineOther
            /\ parseLine) =>
               /\ seeding'.pc = "parse"
               /\ seeding'.params = seeding.params
               /\ seeding'.current = seeding.current
         ]_vars

\* two headers with an unknown line between them gave two records
C21_Witness ==
    /\ seeding.pc = "returned"
    /\ seeding.stdout = <<LineAB, LineOther, LineGain>>
    /\ Len(seeding.result) = 2
    /\ seeding.result[1].name = <<"A", ":", "B">>

\* a header followed by its metadata and a blank line gave one record that
\* carries the metadata
C21_WitnessMetadata ==
    /\ seeding.pc = "returned"
    /\ seeding.stdout = <<LineGain, LineBlank, LineValues>>
    /\ seeding.result =
          <<[param_index |-> 0, name |-> <<"G", "a", "i", "n">>, values |-> <<"0", " ", "t", "o", " ", "1">>]>>

(* C22: show and getParameters return exactly the stored parameter rows of *)
(* the plugin whose values text is neither empty nor the token "to" and    *)
(* whose name is not a MIDI CC name.                                       *)
C22_UsableParameters ==
    (last.cmd \in {"show", "getParameters"} /\ "params" \in DOMAIN last) =>
        last.params =
            { row \in parameters :
                /\ row.plugin_id = last.arg
                /\ row.values \notin {ValuesNone, ValuesTo}
                /\ row.name # NameMidi }

(* C26: when a command changes the session and the automatic snapshot      *)
(* cannot be written, the change stays in memory and the process goes on   *)
(* taking commands.                                                        *)
C26_WriteFailureSurvived ==
    [][ (files["autosave"] = Locked /\ Session' # Session) => alive' ]_vars

(* C25: when every external invocation returns, a run that has started     *)
(* comes to its end, and the step that ends a run, all passes completed or *)
(* a stage having failed, writes the session to the automatic snapshot.    *)
C25_RunEndsWithSnapshot ==
    /\ (runs # <<>>) ~> (runs = <<>>)
    /\ [][ (last'.cmd = "run" /\ last'.msg = "Pipeline finished") =>
              files'["autosave"] = JSONstringify(Session') ]_vars

\* a run has ended after one of its invocations failed, and the snapshot
\* holds the session
C25_Witness ==
    /\ Finished
    /\ runs = <<>>
    /\ \E j \in 1 .. Len(last.frame.log) : last.frame.log[j].result = "failed"
    /\ files["autosave"] = JSONstringify(Session)

\* a run of two passes has ended with every invocation successful
C25_WitnessCompleted ==
    /\ Finished
    /\ runs = <<>>
    /\ last.frame.recurse = 2
    /\ Len(last.frame.log) >= 2
    /\ \A j \in 1 .. Len(last.frame.log) : last.frame.log[j].result = "ok"

=============================================================================
